---------------------------- MODULE Spec2Model ----------------------------
(***************************************************************************)
(* Tone-scoring engine of colour-analysis-cam (src/utils/toneEvaluator.ts) *)
(* and the ColorCamera component that calls it.                            *)
(*                                                                         *)
(* Numbers.  The engine computes in IEEE doubles.  Here every quantity     *)
(* that the evaluator sees (Lab, chroma, hue, rule bounds, weights,        *)
(* penalties, scores) is an integer count of thousandths (Scale), and the  *)
(* colour-space conversion works internally in millionths (Micro); all     *)
(* products and quotients are split so that no intermediate value leaves   *)
(* the 32-bit integers of the model checker.  Strings are sequences of     *)
(* one-character strings.                                                  *)
(*                                                                         *)
(* The conversion agrees with the doubles to about 0.01 in L, a, b and     *)
(* chroma and 0.02 degrees in hue.  For greys the doubles leave a and b    *)
(* a rounding residue of about 1e-5 (whose direction is what labHue then   *)
(* reports); here a and b of a grey are exactly 0, as they are in the      *)
(* doubles for black.  Profiles have min <= max, weights >= 0, sector      *)
(* bounds in [0,360) and a tolerance >= 0, as the data model requires.     *)
(***************************************************************************)
EXTENDS Integers, Sequences, FiniteSets, TLC

VARIABLES
    profile,    \* the ToneProfile object shared by all calls (caller-owned)
    original,   \* the profile's contents as supplied by the caller
    before,     \* the profile's contents when the last call started
    hex,        \* argument of the last call of evaluateTone
    outcome,    \* what the last call did: none yet, a ToneResult, or a throw
    probe,      \* a helper function applied on its own: input and output
    capturedColors,  \* ColorCamera state: hex of each CapturedColor
    currentColor,    \* ColorCamera state: the colour displayed
    isCapturing,     \* ColorCamera state
    isPreviewMode,   \* ColorCamera state
    isProcessing,    \* ColorCamera state
    toneResult,      \* ColorCamera state: <<>> for null, else <<ToneResult>>
    camera,          \* camera.current is set
    ColorExtractor,  \* the native module is present
    previewCall,     \* the await at which a call of previewColor stands
    captureCall      \* the same for captureColor, with the currentColor
                     \* that the call closed over

callVars == <<original, before, hex, outcome, probe>>
cameraVars == <<capturedColors, currentColor, isCapturing, isPreviewMode,
                isProcessing, toneResult, camera, ColorExtractor,
                previewCall, captureCall>>
vars == <<profile, callVars, cameraVars>>

(***************************************************************************)
(* Fixed-point arithmetic                                                  *)
(***************************************************************************)
Scale == 1000
Micro == 1000000
Infinity == 2000000000

N(x) == x * Scale

Min(a, b) == IF a <= b THEN a ELSE b
Max(a, b) == IF a >= b THEN a ELSE b
Abs(x) == IF x < 0 THEN -x ELSE x

\* floor(a * b / Scale), a >= 0, without an intermediate a * b
MulM(a, b) == (a \div Scale) * b + ((a % Scale) * b) \div Scale

\* a / b in thousandths; Infinity / b is Infinity for b > 0
DivM(a, b) == IF a = Infinity THEN Infinity ELSE (a * Scale) \div b

\* floor(a * b / Micro) for 0 <= a, b, split in limbs of 1000
MulU(a, b) ==
    LET a1 == a \div 1000  a0 == a % 1000
        b1 == b \div 1000  b0 == b % 1000
    IN  a1 * b1 + (a1 * b0 + a0 * b1 + (a0 * b0) \div 1000) \div 1000

\* floor(a * Micro / b) for 0 <= a, 0 < b, by long division in limbs of 1000
DivU(a, b) ==
    LET q0 == a \div b          r0 == a % b
        q1 == (r0 * 1000) \div b  r1 == (r0 * 1000) % b
        q2 == (r1 * 1000) \div b
    IN  q0 * Micro + q1 * 1000 + q2

\* millionths to thousandths, to nearest
ToMilli(x) == (x + 500) \div 1000

Cube(y) == MulU(MulU(y, y), y)
Fifth(y) == MulU(MulU(MulU(MulU(y, y), y), y), y)

\* the greatest y in lo..hi with Cube(y) <= t, by bisection
RECURSIVE CubeRoot(_, _, _)
CubeRoot(t, lo, hi) ==
    IF lo >= hi THEN lo
    ELSE LET mid == (lo + hi + 1) \div 2
         IN  IF Cube(mid) <= t THEN CubeRoot(t, mid, hi)
             ELSE CubeRoot(t, lo, mid - 1)

\* the greatest y in lo..hi with Fifth(y) <= t, by bisection
RECURSIVE FifthRoot(_, _, _)
FifthRoot(t, lo, hi) ==
    IF lo >= hi THEN lo
    ELSE LET mid == (lo + hi + 1) \div 2
         IN  IF Fifth(mid) <= t THEN FifthRoot(t, mid, hi)
             ELSE FifthRoot(t, lo, mid - 1)

\* Math.cbrt on millionths
cbrt(t) == CubeRoot(t, 0, 2 * Micro)

\* Math.pow(x, 2.4) on millionths, 0 <= x <= 1: x^2 * (x^2)^(1/5)
pow24(x) == MulU(MulU(x, x), FifthRoot(MulU(x, x), 0, Micro))

\* x * x as <<high, low>> limbs of a million, |x| < 2^21
Sqr(x) ==
    LET a == Abs(x)
        a1 == a \div 1000  a0 == a % 1000
        m == 2 * a1 * a0 * 1000 + a0 * a0
    IN  <<a1 * a1 + m \div Micro, m % Micro>>

\* the greatest y in lo..hi with y * y <= s, s in limbs, by bisection
RECURSIVE SquareRoot(_, _, _)
SquareRoot(s, lo, hi) ==
    IF lo >= hi THEN lo
    ELSE LET mid == (lo + hi + 1) \div 2
             sq == Sqr(mid)
         IN  IF sq[1] < s[1] \/ (sq[1] = s[1] /\ sq[2] <= s[2])
             THEN SquareRoot(s, mid, hi)
             ELSE SquareRoot(s, lo, mid - 1)

\* Math.hypot on thousandths: floor(sqrt(a^2 + b^2))
hypot(a, b) ==
    LET sa == Sqr(a)  sb == Sqr(b)
    IN  SquareRoot(<<sa[1] + sb[1] + (sa[2] + sb[2]) \div Micro,
                     (sa[2] + sb[2]) % Micro>>,
                   0, 400 * Scale)

\* atan(2^-i) in thousandths of a degree, i = 0, 1, ...
AtanTable ==
    <<45000, 26565, 14036, 7125, 3576, 1790, 895, 448, 224, 112, 56, 28, 14,
      7, 3, 2, 1>>

RECURSIVE Cordic(_, _, _, _)
Cordic(x, y, z, i) ==
    IF y = 0 \/ i > Len(AtanTable) THEN z
    ELSE LET sh == 2 ^ (i - 1)
         IN  IF y > 0
             THEN Cordic(x + y \div sh, y - x \div sh, z + AtanTable[i], i + 1)
             ELSE Cordic(x - y \div sh, y + x \div sh, z - AtanTable[i], i + 1)

\* Math.atan2(y, x) * (180 / Math.PI) in thousandths of a degree,
\* in (-180, 180]; atan2(0, x) is 0 for x >= 0 and 180 for x < 0
atan2Deg(y, x) ==
    IF x < 0
    THEN LET z == Cordic(-x * 1024, -y * 1024, 0, 1)
         IN  IF y >= 0 THEN z + N(180) ELSE z - N(180)
    ELSE Cordic(x * 1024, y * 1024, 0, 1)

(***************************************************************************)
(* Colour-space converter                                                  *)
(***************************************************************************)
LowerDigits ==
    <<"0", "1", "2", "3", "4", "5", "6", "7", "8", "9",
      "a", "b", "c", "d", "e", "f">>
UpperDigits == <<"A", "B", "C", "D", "E", "F">>

IsHexDigit(c) ==
    \/ \E i \in DOMAIN LowerDigits : LowerDigits[i] = c
    \/ \E i \in DOMAIN UpperDigits : UpperDigits[i] = c

DigitValue(c) ==
    IF \E i \in DOMAIN UpperDigits : UpperDigits[i] = c
    THEN 9 + (CHOOSE i \in DOMAIN UpperDigits : UpperDigits[i] = c)
    ELSE (CHOOSE i \in DOMAIN LowerDigits : LowerDigits[i] = c) - 1

Drop(s, k) == SubSeq(s, k + 1, Len(s))

RECURSIVE SkipBlanks(_)
SkipBlanks(s) ==
    IF s # <<>> /\ s[1] = " " THEN SkipBlanks(Tail(s)) ELSE s

\* the value of the longest prefix of s made of hexadecimal digits,
\* acc being the value read so far
RECURSIVE ReadDigits(_, _)
ReadDigits(s, acc) ==
    IF s = <<>> \/ ~IsHexDigit(s[1]) THEN acc
    ELSE ReadDigits(Tail(s), acc * 16 + DigitValue(s[1]))

\* parseInt(s, 16): blanks, a sign, "0x", then digits up to the first
\* character that is none; <<n>> for a number, <<>> for NaN
parseInt16(s) ==
    LET t == SkipBlanks(s)
        signed == t # <<>> /\ t[1] \in {"-", "+"}
        u == IF signed THEN Tail(t) ELSE t
        prefixed == Len(u) >= 2 /\ u[1] = "0" /\ u[2] \in {"x", "X"}
        d == IF prefixed THEN Drop(u, 2) ELSE u
    IN  IF d = <<>> \/ ~IsHexDigit(d[1]) THEN <<>>
        ELSE IF signed /\ t[1] = "-" THEN <<-ReadDigits(d, 0)>>
        ELSE <<ReadDigits(d, 0)>>

\* ToInt32 of a parseInt result: NaN becomes 0
ToInt32(p) == IF p = <<>> THEN 0 ELSE p[1]

\* hex.replace(/^#/, "")
StripHash(h) == IF h # <<>> /\ h[1] = "#" THEN Tail(h) ELSE h

\* s.split("").map(c => c + c).join("")
RECURSIVE DoubleChars(_)
DoubleChars(s) ==
    IF s = <<>> THEN <<>> ELSE <<s[1], s[1]>> \o DoubleChars(Tail(s))

Thrown == [threw |-> TRUE, r |-> 0, g |-> 0, b |-> 0]

hexToRgbAnyLength(h) ==
    LET n == ToInt32(parseInt16(StripHash(h)))
    IN  [threw |-> FALSE,
         r |-> (n \div 65536) % 256,
         g |-> (n \div 256) % 256,
         b |-> n % 256]

hexToRgbNoDoubling(h) ==
    LET s == StripHash(h)
    IN  IF Len(s) # 3 /\ Len(s) # 6 THEN Thrown
        ELSE LET n == ToInt32(parseInt16(s))
             IN  [threw |-> FALSE,
                  r |-> (n \div 65536) % 256,
                  g |-> (n \div 256) % 256,
                  b |-> n % 256]

hexToRgb(h) ==
    LET s == StripHash(h)
    IN  IF Len(s) # 3 /\ Len(s) # 6 THEN Thrown
        ELSE LET six == IF Len(s) = 3 THEN DoubleChars(s) ELSE s
                 n == ToInt32(parseInt16(six))
             IN  [threw |-> FALSE,
                  r |-> (n \div 65536) % 256,
                  g |-> (n \div 256) % 256,
                  b |-> n % 256]

srgbToLinear(u8) ==
    LET v == (u8 * Micro) \div 255
    IN  IF v <= 40450 THEN (v * 100) \div 1292
        ELSE pow24(DivU(v + 55000, 1055000))

\* c * x, c in units of 10^-7
Times(c, x) == MulU(c, x) \div 10

\* the matrix of rgbToXyz applied to linear r, g, b
LinearToXyz(r, g, b) ==
    [X |-> Times(4124564, r) + Times(3575761, g) + Times(1804375, b),
     Y |-> Times(2126729, r) + Times(7151522, g) + Times(721750, b),
     Z |-> Times(193339, r) + Times(1191920, g) + Times(9503041, b)]

rgbToXyz(r8, g8, b8) ==
    LinearToXyz(srgbToLinear(r8), srgbToLinear(g8), srgbToLinear(b8))

f(t) ==
    LET eps == (216 * Micro) \div 24389        \* (6/29)^3
    IN  IF t > eps THEN cbrt(t)
        ELSE (841 * t) \div 27 + (4 * Micro) \div 29

\* the Lab triple of xyzToLab from fx, fy, fz
LabOf(fx, fy, fz) ==
    [L |-> ToMilli(116 * fy - 16 * Micro),
     a |-> ToMilli(500 * (fx - fy)),
     b |-> ToMilli(200 * (fy - fz))]

\* D65 white: Xn = 0.95047, Yn = 1.0, Zn = 1.08883
xyzToLab(X, Y, Z) ==
    LabOf(f(DivU(X, 950470)), f(DivU(Y, Micro)), f(DivU(Z, 1088830)))

XyzRecordToLab(xyz) == xyzToLab(xyz.X, xyz.Y, xyz.Z)

rgbToLab(r, g, b) == XyzRecordToLab(rgbToXyz(r, g, b))

\* h < 0 ? h + 360 : h
NonNegativeHue(h) == IF h < 0 THEN h + N(360) ELSE h

PositiveHue(h) == IF h <= 0 THEN h + N(360) ELSE h

labHueWrapsZero(lab) == PositiveHue(atan2Deg(lab.b, lab.a))

labHue(lab) == NonNegativeHue(atan2Deg(lab.b, lab.a))

(***************************************************************************)
(* Tone evaluator                                                          *)
(***************************************************************************)
clampNoFloor(min, x, max) == Min(x, max)
clampNoCeiling(min, x, max) == Max(min, x)
clamp(min, x, max) == Max(min, Min(x, max))

\* Math.round(x * 10) / 10 and Math.round(x * 100) / 100
round1(x) == ((x + 50) \div 100) * 100
round2(x) == ((x + 5) \div 10) * 10

rangePenaltyUncapped(value, rule) ==
    IF value >= rule.min /\ value <= rule.max THEN 0
    ELSE LET dist == IF value < rule.min THEN rule.min - value
                     ELSE value - rule.max
             h == (rule.max - rule.min) \div 2
             half == IF h = 0 THEN N(1) ELSE h
         IN  MulM(DivM(dist, half), rule.weight)

\* the ramp length taken as max((max - min) / 2, 1)
rangePenaltyFlooredHalf(value, rule) ==
    IF value >= rule.min /\ value <= rule.max THEN 0
    ELSE LET dist == IF value < rule.min THEN rule.min - value
                     ELSE value - rule.max
             half == Max((rule.max - rule.min) \div 2, N(1))
         IN  Min(MulM(DivM(dist, half), rule.weight), rule.weight)

rangePenalty(value, rule) ==
    IF value >= rule.min /\ value <= rule.max THEN 0
    ELSE LET dist == IF value < rule.min THEN rule.min - value
                     ELSE value - rule.max
             h == (rule.max - rule.min) \div 2
             half == IF h = 0 THEN N(1) ELSE h
         IN  Min(MulM(DivM(dist, half), rule.weight), rule.weight)

inSectorNoWrap(h, a, b) == h >= a /\ h <= b

inSector(h, a, b) ==
    IF a <= b THEN h >= a /\ h <= b ELSE h >= a \/ h <= b

degToEdgeDistance(h, a, b) ==
    LET d(x, y) == LET dd == Abs(x - y) % N(360)
                   IN  IF dd > N(180) THEN N(360) - dd ELSE dd
    IN  Min(d(h, a), d(h, b))

RECURSIVE SectorLoop(_, _, _)
SectorLoop(h, sectors, best) ==
    IF sectors = <<>> THEN best
    ELSE LET a == sectors[1][1]
             b == sectors[1][2]
         IN  IF inSector(h, a, b) THEN 0
             ELSE SectorLoop(h, Tail(sectors),
                             Min(best, degToEdgeDistance(h, a, b)))

hueSectorDistance(h, sectors) == SectorLoop(h, sectors, Infinity)

\* buckets with x put after the last bucket whose minScore is >= x's
RECURSIVE InsertDesc(_, _)
InsertDesc(x, sorted) ==
    IF sorted = <<>> THEN <<x>>
    ELSE IF sorted[1].minScore >= x.minScore
         THEN <<sorted[1]>> \o InsertDesc(x, Tail(sorted))
         ELSE <<x>> \o sorted

\* buckets with x put before the first bucket whose minScore is <= x's
RECURSIVE InsertDescFirst(_, _)
InsertDescFirst(x, sorted) ==
    IF sorted = <<>> THEN <<x>>
    ELSE IF sorted[1].minScore > x.minScore
         THEN <<sorted[1]>> \o InsertDescFirst(x, Tail(sorted))
         ELSE <<x>> \o sorted

\* a descending sort that reverses buckets of equal minScore
RECURSIVE sortUnstable(_)
sortUnstable(buckets) ==
    IF buckets = <<>> THEN <<>>
    ELSE InsertDescFirst(buckets[Len(buckets)],
                         sortUnstable(SubSeq(buckets, 1, Len(buckets) - 1)))

\* buckets with x put before the first bucket whose minScore is > x's
RECURSIVE InsertAsc(_, _)
InsertAsc(x, sorted) ==
    IF sorted = <<>> THEN <<x>>
    ELSE IF sorted[1].minScore <= x.minScore
         THEN <<sorted[1]>> \o InsertAsc(x, Tail(sorted))
         ELSE <<x>> \o sorted

\* the sort with the comparator a.minScore - b.minScore
RECURSIVE sortAscending(_)
sortAscending(buckets) ==
    IF buckets = <<>> THEN <<>>
    ELSE InsertAsc(buckets[Len(buckets)],
                   sortAscending(SubSeq(buckets, 1, Len(buckets) - 1)))

\* Array.prototype.sort((a, b) => b.minScore - a.minScore): stable,
\* descending by minScore
RECURSIVE sort(_)
sort(buckets) ==
    IF buckets = <<>> THEN <<>>
    ELSE InsertDesc(buckets[Len(buckets)],
                    sort(SubSeq(buckets, 1, Len(buckets) - 1)))

\* the lookup with score > b.minScore
RECURSIVE findStrict(_, _)
findStrict(buckets, score) ==
    IF buckets = <<>> THEN "not a match"
    ELSE IF score > buckets[1].minScore THEN buckets[1].label
         ELSE findStrict(Tail(buckets), score)

\* .find(b => score >= b.minScore)?.label ?? "not a match"
RECURSIVE find(_, _)
find(buckets, score) ==
    IF buckets = <<>> THEN "not a match"
    ELSE IF score >= buckets[1].minScore THEN buckets[1].label
         ELSE find(Tail(buckets), score)

NoteIf(cond, note) == IF cond THEN <<note>> ELSE <<>>

\* the tolerance used as it is, with no fallback for 0
huePenaltyNoFallback(d, hs) ==
    IF hs.toleranceDegrees = 0 THEN (IF d > 0 THEN hs.weight ELSE 0)
    ELSE MulM(Min(DivM(d, hs.toleranceDegrees), N(1)), hs.weight)

\* lines 61-64 of evaluateTone: the hue penalty of the distance d
huePenalty(d, hs) ==
    LET t == IF hs.toleranceDegrees = 0 THEN N(60) ELSE hs.toleranceDegrees
        frac == Min(DivM(d, t), N(1))
    IN  MulM(frac, hs.weight)

\* the warmth rule firing at its threshold too
warmthAppliesFromThreshold(lab, wp) == wp # <<>> /\ lab.b >= wp[1].lab_b_gt

\* line 70 of evaluateTone: profile.warmthPenalty && lab.b > lab_b_gt
warmthApplies(lab, wp) == wp # <<>> /\ lab.b > wp[1].lab_b_gt

\* the notes with the warmth note pushed before the hue note
toneNotesWarmthFirst(L, C, d, warm, p) ==
    NoteIf(L < p.lightness.min, "too dark for this tone")
    \o NoteIf(L > p.lightness.max, "too light/washed")
    \o NoteIf(C < p.chroma.min, "too gray/soft")
    \o NoteIf(C > p.chroma.max, "too saturated/bright")
    \o NoteIf(warm, "yellow warmth present")
    \o NoteIf(d > 0, "leans outside cool hue sectors")

\* the notes pushed at lines 51-52, 56-57, 66 and 72 of evaluateTone
toneNotes(L, C, d, warm, p) ==
    NoteIf(L < p.lightness.min, "too dark for this tone")
    \o NoteIf(L > p.lightness.max, "too light/washed")
    \o NoteIf(C < p.chroma.min, "too gray/soft")
    \o NoteIf(C > p.chroma.max, "too saturated/bright")
    \o NoteIf(d > 0, "leans outside cool hue sectors")
    \o NoteIf(warm, "yellow warmth present")

\* lines 46-90 of evaluateTone, from lab, C and H on
evaluateMetrics(h, p, lab, C, H) ==
    LET L == lab.L
        d == hueSectorDistance(H, p.hueSectors.sectors)
        warm == warmthApplies(lab, p.warmthPenalty)
        penalty == rangePenalty(L, p.lightness)
                   + rangePenalty(C, p.chroma)
                   + huePenalty(d, p.hueSectors)
                   + (IF warm THEN p.warmthPenalty[1].penalty ELSE 0)
        notes == toneNotes(L, C, d, warm, p)
        score == clamp(0, N(100) - penalty, N(100))
        sorted == sort(p.matchBuckets)
        matchLevel == find(sorted, score)
    IN  [threw |-> FALSE,
         result |-> <<[input |-> h,
                       toneLabel |-> p.label,
                       lab |-> lab,
                       chroma |-> round2(C),
                       hue |-> round1(H),
                       score |-> round1(score),
                       matchLevel |-> matchLevel,
                       notes |-> notes]>>,
         profile |-> [p EXCEPT !.matchBuckets = sorted],
         penalty |-> penalty,
         score |-> score]

\* lines 43-44 of evaluateTone: C and H of lab
evaluateLab(h, p, lab) ==
    evaluateMetrics(h, p, lab, hypot(lab.a, lab.b), labHue(lab))

\* lines 40-41 of evaluateTone: the throw of hexToRgb leaves at once
evaluateRgb(h, p, rgb) ==
    IF rgb.threw
    THEN [threw |-> TRUE, result |-> <<>>, profile |-> p,
          penalty |-> 0, score |-> 0]
    ELSE evaluateLab(h, p, rgbToLab(rgb.r, rgb.g, rgb.b))

\* The call evaluateTone(h, p): whether it threw, the ToneResult (none when
\* it threw), the profile object as the call leaves it, and the penalty
\* and the score before rounding.
evaluateTone(h, p) == evaluateRgb(h, p, hexToRgb(h))

(***************************************************************************)
(* Inputs                                                                  *)
(***************************************************************************)
Rule(lo, hi, w) == [min |-> N(lo), max |-> N(hi), weight |-> N(w)]
Bucket(m, l) == [minScore |-> N(m), label |-> l]

LightnessRules == {Rule(40, 60, 30), Rule(50, 50, 20)}
ChromaRules == {Rule(10, 40, 30)}
HueRules ==
    {[sectors |-> << <<N(200), N(300)>> >>,
      toleranceDegrees |-> N(60), weight |-> N(40)],
     [sectors |-> << <<N(350), N(10)>>, <<N(100), N(140)>> >>,
      toleranceDegrees |-> 0, weight |-> N(20)],
     [sectors |-> <<>>, toleranceDegrees |-> N(30), weight |-> N(10)]}
WarmthRules ==
    {<<>>,
     <<[lab_b_gt |-> 0, penalty |-> N(15)]>>,
     <<[lab_b_gt |-> N(-200), penalty |-> N(-10)]>>}
BucketLists ==
    {<<Bucket(90, "Perfect"), Bucket(70, "Good"), Bucket(0, "Poor")>>,
     <<Bucket(0, "Poor"), Bucket(90, "Perfect"), Bucket(70, "Good")>>,
     <<Bucket(40, "Weak"), Bucket(70, "Fair"), Bucket(70, "Good")>>,
     <<>>}

Profiles ==
    [label : {"summer_cool_muted"},
     lightness : LightnessRules,
     chroma : ChromaRules,
     hueSectors : HueRules,
     warmthPenalty : WarmthRules,
     matchBuckets : BucketLists]

Black == <<"#", "0", "0", "0", "0", "0", "0">>
White == <<"#", "F", "F", "F", "F", "F", "F">>

HexInputs ==
    {Black, White,
     <<"f", "f", "0">>,
     <<"#", "6", "a", "7", "f", "b", "5">>,
     <<"9", "A", "b">>,
     <<"3", "7", "4">>,
     <<"#", "8", "8", "8">>,
     <<"r", "e", "d">>,
     <<"#", "1", "2", "3", "4", "5">>,
     <<"1", "2", "g", "4", "5", "6">>,
     <<"-", "1", "2", "3", "4", "5">>,
     <<"#", "#", "a", "b", "c">>,
     <<"a", "b", "c", "d">>,
     <<>>}

Idle == [fn |-> "none", arg |-> <<>>, out |-> <<>>]
NoCall == [kind |-> "none", res |-> <<>>]
NoCapture == [at |-> "idle", currentColor |-> <<>>]

\* the useState and useRef initial values of ColorCamera
CameraConstructed ==
    /\ capturedColors = <<>>
    /\ currentColor = Black
    /\ isCapturing = FALSE
    /\ isPreviewMode = FALSE
    /\ isProcessing = FALSE
    /\ toneResult = <<>>
    /\ camera = FALSE
    /\ previewCall = "idle"
    /\ captureCall = NoCapture

(***************************************************************************)
(* Calls of evaluateTone on one shared profile object                      *)
(***************************************************************************)
Init ==
    /\ profile \in Profiles
    /\ original = profile
    /\ before = profile
    /\ hex = <<>>
    /\ outcome = NoCall
    /\ probe = Idle
    /\ CameraConstructed
    /\ ColorExtractor = TRUE

Evaluate ==
    \E h \in HexInputs :
        LET e == evaluateTone(h, profile)
        IN  /\ hex' = h
            /\ before' = profile
            /\ profile' = e.profile
            /\ outcome' = [kind |-> IF e.threw THEN "error" ELSE "result",
                           res |-> e.result]
            /\ UNCHANGED <<original, probe, cameraVars>>

Next == Evaluate

Spec == Init /\ [][Next]_vars

(***************************************************************************)
(* The evaluator's steps applied on their own                              *)
(***************************************************************************)
MaxHalfUnits == 240
HueSteps == 90

\* the lightness of the colour written h
RgbRecordToLab(rgb) == rgbToLab(rgb.r, rgb.g, rgb.b)

LightnessOf(h) == RgbRecordToLab(hexToRgb(h)).L

RangeValues ==
    {(N(i) \div 2) - N(10) : i \in 0..MaxHalfUnits} \cup {LightnessOf(White)}
RangeRules ==
    {Rule(40, 60, 30), Rule(50, 50, 20), Rule(40, 41, 10), Rule(30, 70, 0),
     Rule(0, 100, 25)}

HueValues == {N((4 * i + 1) % 360) : i \in 0..HueSteps} \cup {0, N(5), N(180), N(355)}
SectorLists ==
    {<<>>,
     << <<N(350), N(10)>> >>,
     << <<N(200), N(300)>> >>,
     << <<N(100), N(140)>>, <<N(350), N(10)>> >>,
     << <<N(181), N(181)>> >>,
     << <<N(0), N(90)>>, <<N(270), N(359)>> >>}

HueProbeRules ==
    HueRules \cup
    {[sectors |-> << <<N(0), N(90)>>, <<N(270), N(359)>> >>,
      toleranceDegrees |-> N(200), weight |-> N(25)],
     [sectors |-> << <<N(350), N(10)>> >>,
      toleranceDegrees |-> N(45), weight |-> 0]}

ProbeScores == {0, N(10), N(40), 69900, N(70), N(85), N(90), N(95), N(100)}
ProbeBuckets ==
    BucketLists \cup
    {<<Bucket(70, "Good"), Bucket(0, "Poor"), Bucket(90, "Perfect")>>,
     <<Bucket(70, "Good"), Bucket(90, "Perfect"), Bucket(0, "Poor")>>,
     <<Bucket(90, "Perfect"), Bucket(0, "Poor"), Bucket(70, "Good")>>,
     <<Bucket(0, "Poor"), Bucket(70, "Good"), Bucket(90, "Perfect")>>,
     <<Bucket(50, "Half")>>,
     <<Bucket(70, "Fair"), Bucket(40, "Weak"), Bucket(70, "Good")>>}

InitPure ==
    /\ profile \in {p \in Profiles : p.matchBuckets = <<>>
                                     /\ p.warmthPenalty = <<>>
                                     /\ p.lightness = Rule(40, 60, 30)
                                     /\ p.hueSectors.sectors = <<>>}
    /\ original = profile
    /\ before = profile
    /\ hex = <<>>
    /\ outcome = NoCall
    /\ \/ probe \in [fn : {"lightness"},
                     arg : [value : RangeValues, rule : RangeRules],
                     out : {<<>>}]
       \/ probe \in [fn : {"hue"},
                     arg : [h : HueValues, sectors : SectorLists],
                     out : {<<>>}]
       \/ probe \in [fn : {"bucket"},
                     arg : [score : ProbeScores, buckets : ProbeBuckets],
                     out : {<<>>}]
       \/ probe \in [fn : {"huePenalty"},
                     arg : [h : HueValues, rule : HueProbeRules],
                     out : {<<>>}]
    /\ CameraConstructed
    /\ ColorExtractor = TRUE

\* lines 50-52 of evaluateTone on a value and a rule
ApplyLightness ==
    /\ probe.fn = "lightness" /\ probe.out = <<>>
    /\ LET v == probe.arg.value
           rule == probe.arg.rule
       IN  probe' = [probe EXCEPT !.out =
                <<[penalty |-> rangePenalty(v, rule),
                   notes |-> NoteIf(v < rule.min, "too dark for this tone")
                             \o NoteIf(v > rule.max, "too light/washed")]>>]
    /\ UNCHANGED <<profile, original, before, hex, outcome, cameraVars>>

ApplyHueSectorDistance ==
    /\ probe.fn = "hue" /\ probe.out = <<>>
    /\ probe' = [probe EXCEPT !.out =
                    <<hueSectorDistance(probe.arg.h, probe.arg.sectors)>>]
    /\ UNCHANGED <<profile, original, before, hex, outcome, cameraVars>>

\* lines 76-79 of evaluateTone on a score and a bucket list
ApplyMatchLevel ==
    /\ probe.fn = "bucket" /\ probe.out = <<>>
    /\ probe' = [probe EXCEPT !.out =
                    <<find(sort(probe.arg.buckets), probe.arg.score)>>]
    /\ UNCHANGED <<profile, original, before, hex, outcome, cameraVars>>

\* lines 60-67 of evaluateTone on a hue and a hue rule
ApplyHuePenalty ==
    /\ probe.fn = "huePenalty" /\ probe.out = <<>>
    /\ LET rule == probe.arg.rule
           d == hueSectorDistance(probe.arg.h, rule.sectors)
       IN  probe' = [probe EXCEPT !.out =
                <<[penalty |-> huePenalty(d, rule),
                   notes |-> NoteIf(d > 0, "leans outside cool hue sectors")]>>]
    /\ UNCHANGED <<profile, original, before, hex, outcome, cameraVars>>

NextPure ==
    \/ ApplyLightness
    \/ ApplyHueSectorDistance
    \/ ApplyMatchLevel
    \/ ApplyHuePenalty

SpecPure == InitPure /\ [][NextPure]_vars

(***************************************************************************)
(* ColorCamera: the preview timer, the capture button and the completions  *)
(* of the asynchronous camera and extractor calls.  Each action is one     *)
(* run of JavaScript between two awaits; a state update is rendered, and   *)
(* the interval re-armed with the new previewColor, before the next timer  *)
(* tick or press is delivered.  Of a CapturedColor only hex is kept.       *)
(***************************************************************************)
MaxCaptured == 2

Grey == <<"#", "8", "0", "8", "0", "8", "0">>

\* what extractColorFromImage resolves with: null, or a result whose hex
\* is a sampled colour or a string that hexToRgb rejects
ExtractedHex ==
    {<<"#", "6", "A", "7", "F", "B", "5">>, White, <<"#", "1", "2", "3", "4", "5">>}
ColorResults == {<<>>} \cup {<<h>> : h \in ExtractedHex}

\* toneProfiles.summer_cool_muted
CameraProfiles ==
    {p \in Profiles : /\ p.lightness = Rule(40, 60, 30)
                      /\ p.hueSectors.toleranceDegrees = N(60)
                      /\ p.warmthPenalty = <<>>
                      /\ p.matchBuckets = <<Bucket(90, "Perfect"),
                                             Bucket(70, "Good"),
                                             Bucket(0, "Poor")>>}

InitCamera ==
    /\ profile \in CameraProfiles
    /\ original = profile
    /\ before = profile
    /\ hex = <<>>
    /\ outcome = NoCall
    /\ probe = Idle
    /\ CameraConstructed
    /\ ColorExtractor \in BOOLEAN

\* <Camera ref={camera} ...> is rendered
MountCamera ==
    /\ ~camera
    /\ camera' = TRUE
    /\ UNCHANGED <<profile, callVars, capturedColors, currentColor, isCapturing,
                   isPreviewMode, isProcessing, toneResult, ColorExtractor,
                   previewCall, captureCall>>

togglePreviewMode ==
    /\ isPreviewMode' = ~isPreviewMode
    /\ UNCHANGED <<profile, callVars, capturedColors, currentColor, isCapturing,
                   isProcessing, toneResult, camera, ColorExtractor,
                   previewCall, captureCall>>

\* a tick of the interval: previewColor up to its first await
previewColor ==
    /\ isPreviewMode /\ camera
    /\ ~(~camera \/ isCapturing \/ isProcessing)
    /\ isProcessing' = TRUE
    /\ previewCall' = "takeSnapshot"
    /\ UNCHANGED <<profile, callVars, capturedColors, currentColor, isCapturing,
                   isPreviewMode, toneResult, camera, ColorExtractor,
                   captureCall>>

\* takeSnapshot resolves: on to the extraction, or the grey fallback and
\* the finally block
PreviewSnapshotResolved ==
    /\ previewCall = "takeSnapshot"
    /\ IF ColorExtractor
       THEN /\ previewCall' = "extractColorFromImage"
            /\ UNCHANGED <<currentColor, isProcessing>>
       ELSE /\ currentColor' = Grey
            /\ isProcessing' = FALSE
            /\ previewCall' = "idle"
    /\ UNCHANGED <<profile, callVars, capturedColors, isCapturing,
                   isPreviewMode, toneResult, camera, ColorExtractor,
                   captureCall>>

\* the catch block without the finally block behind it
PreviewCaughtFlagKept ==
    /\ previewCall \in {"takeSnapshot", "extractColorFromImage"}
    /\ currentColor' = Black
    /\ previewCall' = "idle"
    /\ UNCHANGED <<profile, callVars, capturedColors, isCapturing, isProcessing,
                   isPreviewMode, toneResult, camera, ColorExtractor,
                   captureCall>>

\* takeSnapshot or extractColorFromImage rejects: catch and finally
PreviewRejected ==
    /\ previewCall \in {"takeSnapshot", "extractColorFromImage"}
    /\ currentColor' = Black
    /\ isProcessing' = FALSE
    /\ previewCall' = "idle"
    /\ UNCHANGED <<profile, callVars, capturedColors, isCapturing,
                   isPreviewMode, toneResult, camera, ColorExtractor,
                   captureCall>>

\* lines 240-248 with the result of evaluateTone at hand, then finally
PreviewShow(h, e) ==
    /\ currentColor' = IF e.threw THEN Black ELSE h
    /\ toneResult' = IF e.threw THEN toneResult ELSE e.result
    /\ profile' = e.profile

\* extractColorFromImage resolves in previewColor
PreviewExtractResolved ==
    /\ previewCall = "extractColorFromImage"
    /\ \E colorResult \in ColorResults :
          IF colorResult = <<>>
          THEN UNCHANGED <<currentColor, toneResult, profile>>
          ELSE PreviewShow(colorResult[1], evaluateTone(colorResult[1], profile))
    /\ isProcessing' = FALSE
    /\ previewCall' = "idle"
    /\ UNCHANGED <<callVars, capturedColors, isCapturing, isPreviewMode,
                   camera, ColorExtractor, captureCall>>

\* a press of the capture button (disabled while isCapturing):
\* captureColor up to its first await
captureColor ==
    /\ ~isCapturing
    /\ camera
    /\ Len(capturedColors) < MaxCaptured
    /\ isCapturing' = TRUE
    /\ captureCall' = [at |-> "takePhoto", currentColor |-> currentColor]
    /\ UNCHANGED <<profile, callVars, capturedColors, currentColor,
                   isPreviewMode, isProcessing, toneResult, camera,
                   ColorExtractor, previewCall>>

\* takePhoto resolves: on to the extraction, or the fallback that stores
\* the currentColor the call closed over, and the finally block
CapturePhotoResolved ==
    /\ captureCall.at = "takePhoto"
    /\ IF ColorExtractor
       THEN /\ captureCall' = [captureCall EXCEPT !.at = "extractColorFromImage"]
            /\ UNCHANGED <<capturedColors, isCapturing>>
       ELSE /\ capturedColors' = Append(capturedColors, captureCall.currentColor)
            /\ isCapturing' = FALSE
            /\ captureCall' = NoCapture
    /\ UNCHANGED <<profile, callVars, currentColor, isPreviewMode,
                   isProcessing, toneResult, camera, ColorExtractor,
                   previewCall>>

\* takePhoto or extractColorFromImage rejects: catch and finally
CaptureRejected ==
    /\ captureCall.at \in {"takePhoto", "extractColorFromImage"}
    /\ isCapturing' = FALSE
    /\ captureCall' = NoCapture
    /\ UNCHANGED <<profile, callVars, capturedColors, currentColor,
                   isPreviewMode, isProcessing, toneResult, camera,
                   ColorExtractor, previewCall>>

\* lines 279-299 with the result of evaluateTone at hand
CaptureShow(h, e) ==
    /\ capturedColors' = Append(capturedColors, h)
    /\ currentColor' = h
    /\ toneResult' = IF e.threw THEN toneResult ELSE e.result
    /\ profile' = e.profile

\* extractColorFromImage resolves in captureColor
CaptureExtractResolved ==
    /\ captureCall.at = "extractColorFromImage"
    /\ \E colorResult \in ColorResults :
          IF colorResult = <<>>
          THEN UNCHANGED <<capturedColors, currentColor, toneResult, profile>>
          ELSE CaptureShow(colorResult[1], evaluateTone(colorResult[1], profile))
    /\ isCapturing' = FALSE
    /\ captureCall' = NoCapture
    /\ UNCHANGED <<callVars, isPreviewMode, isProcessing, camera,
                   ColorExtractor, previewCall>>

NextCamera ==
    \/ MountCamera
    \/ togglePreviewMode
    \/ previewColor
    \/ PreviewSnapshotResolved
    \/ PreviewRejected
    \/ PreviewExtractResolved
    \/ captureColor
    \/ CapturePhotoResolved
    \/ CaptureRejected
    \/ CaptureExtractResolved

SpecCamera == InitCamera /\ [][NextCamera]_vars

\* every asynchronous call that was started settles
SpecCameraSettling ==
    /\ SpecCamera
    /\ WF_vars(PreviewSnapshotResolved \/ PreviewRejected \/ PreviewExtractResolved)
    /\ WF_vars(CapturePhotoResolved \/ CaptureRejected \/ CaptureExtractResolved)

(***************************************************************************)
(* Properties                                                              *)
(***************************************************************************)
Called == outcome.kind # "none"
Returned == outcome.kind = "result"
Result == outcome.res[1]

\* C1: every score that evaluateTone returns lies between 0 and 100.
ScoreWithinBounds ==
    Returned => Result.score >= 0 /\ Result.score <= N(100)

\* a call whose penalties add up to more than 100 points
PenaltyAboveHundred ==
    Returned /\ evaluateTone(hex, before).penalty > N(100)

\* C2: after any call the profile holds its buckets in the order it had
\* before the call.
ProfileLeftUnchanged == Called => profile = before

\* C3: an input with a character that is no hexadecimal digit makes
\* evaluateTone throw, and no ToneResult is produced.
NonHexInputRejected ==
    (Called /\ \E i \in DOMAIN StripHash(hex) : ~IsHexDigit(StripHash(hex)[i]))
        => outcome.kind = "error"

\* C4: an input whose length without one leading '#' is neither 3 nor 6
\* makes evaluateTone throw: no ToneResult, and the profile as it was.
BadLengthThrowsFirst ==
    (Called /\ Len(StripHash(hex)) \notin {3, 6})
        => outcome = [kind |-> "error", res |-> <<>>] /\ profile = before

\* a five-digit input given with a profile whose buckets are not in
\* descending order
BadLengthOnUnsortedProfile ==
    /\ outcome.kind = "error"
    /\ Len(StripHash(hex)) = 5
    /\ before.matchBuckets # sort(before.matchBuckets)

\* C5: what a call returns is what the same call returns on the profile as
\* originally supplied, whatever calls were made on the profile before.
ResultIndependentOfHistory ==
    Called =>
        LET e == evaluateTone(hex, original)
        IN  outcome = [kind |-> IF e.threw THEN "error" ELSE "result",
                       res |-> e.result]

\* a result computed on a profile object that an earlier call has reordered,
\* two of its buckets sharing the threshold that the score reaches
ResultAfterReordering ==
    /\ Returned
    /\ before # original
    /\ \E i, j \in DOMAIN original.matchBuckets :
          /\ i # j
          /\ original.matchBuckets[i].minScore = original.matchBuckets[j].minScore
          /\ Result.score >= original.matchBuckets[i].minScore

Applied(fn) == probe.fn = fn /\ probe.out # <<>>

\* C6: matchLevel is the label of a bucket of greatest minScore among the
\* buckets whose minScore is <= the score, in whatever order the buckets
\* are listed, and "not a match" when there is none; with the buckets
\* 90 Perfect, 70 Good, 0 Poor: 95 gives Perfect, 85 Good, 10 and 0 Poor.
MatchLevelIsBestBucket ==
    Applied("bucket") =>
        LET s == probe.arg.score
            bs == probe.arg.buckets
            level == probe.out[1]
            q == {i \in DOMAIN bs : bs[i].minScore <= s}
            example == {Bucket(90, "Perfect"), Bucket(70, "Good"),
                        Bucket(0, "Poor")}
        IN  /\ q = {} => level = "not a match"
            /\ q # {} => \E i \in q :
                            /\ bs[i].label = level
                            /\ \A j \in q : bs[j].minScore <= bs[i].minScore
            /\ {bs[i] : i \in DOMAIN bs} = example =>
                  /\ s = N(95) => level = "Perfect"
                  /\ s = N(85) => level = "Good"
                  /\ s \in {0, N(10)} => level = "Poor"

\* the score 85 looked up in the three buckets listed in ascending order
GoodFoundInAscendingList ==
    /\ Applied("bucket")
    /\ probe.arg.score = N(85)
    /\ probe.arg.buckets = <<Bucket(0, "Poor"), Bucket(70, "Good"),
                             Bucket(90, "Perfect")>>
    /\ probe.out[1] = "Good"

\* distance of v from the interval of the rule, 0 inside
DistanceOutside(v, rule) ==
    IF v < rule.min THEN rule.min - v
    ELSE IF v > rule.max THEN v - rule.max ELSE 0

WhiteCase ==
    (probe.arg.value = LightnessOf(White) /\ probe.arg.rule = Rule(40, 60, 30))
        => probe.out[1] = [penalty |-> N(30), notes |-> <<"too light/washed">>]

\* C7 as stated: the penalty is 0 inside [min,max], strictly increasing with
\* the distance outside it up to the cap, and equal to weight once the
\* distance is at least half the interval width; lightness 100 against
\* {40,60,30} costs exactly 30 with the note "too light/washed".
RampCapsAtHalfWidth ==
    Applied("lightness") =>
        LET v == probe.arg.value
            rule == probe.arg.rule
            p == probe.out[1].penalty
            d == DistanceOutside(v, rule)
            halfWidth == (rule.max - rule.min) \div 2
        IN  /\ d = 0 => p = 0
            /\ \A v2 \in RangeValues :
                  (0 < d /\ d < DistanceOutside(v2, rule)
                         /\ DistanceOutside(v2, rule) <= halfWidth)
                      => p < rangePenalty(v2, rule)
            /\ (d > 0 /\ d >= halfWidth) => p = rule.weight
            /\ WhiteCase

\* C7 amended: the penalty is 0 inside [min,max], never decreases with the
\* distance outside it, increases strictly up to the cap when weight > 0,
\* and equals weight once the distance is at least the ramp length: half
\* the interval width, or 1 when min = max; lightness 100 against
\* {40,60,30} costs exactly 30 with the note "too light/washed".
RampCapsAtRampLength ==
    Applied("lightness") =>
        LET v == probe.arg.value
            rule == probe.arg.rule
            p == probe.out[1].penalty
            d == DistanceOutside(v, rule)
            ramp == IF rule.max = rule.min THEN N(1)
                    ELSE (rule.max - rule.min) \div 2
        IN  /\ d = 0 => p = 0
            /\ \A v2 \in RangeValues :
                  (0 < d /\ d < DistanceOutside(v2, rule)) =>
                      /\ p <= rangePenalty(v2, rule)
                      /\ (rule.weight > 0 /\ DistanceOutside(v2, rule) <= ramp)
                            => p < rangePenalty(v2, rule)
            /\ (d > 0 /\ d >= ramp) => p = rule.weight
            /\ WhiteCase

\* the lightness of white measured against {40,60,30}
WhiteAgainstMidLightness ==
    /\ Applied("lightness")
    /\ probe.arg.value = LightnessOf(White)
    /\ probe.arg.rule = Rule(40, 60, 30)
    /\ probe.out[1].penalty = N(30)

\* C8: a hue is inside a sector (start, end) iff start <= h <= end when
\* start <= end, and iff h >= start or h <= end when start > end; the
\* sector [350,10] contains 355 and 5 and not 180; hueSectorDistance is 0
\* exactly when the hue is inside at least one of the sectors.
ZeroDistanceIffInsideSector ==
    Applied("hue") =>
        LET h == probe.arg.h
            secs == probe.arg.sectors
            d == probe.out[1]
            Inside(start, end) ==
                IF start <= end THEN start <= h /\ h <= end
                ELSE h >= start \/ h <= end
        IN  /\ d = 0 <=> \E i \in DOMAIN secs : Inside(secs[i][1], secs[i][2])
            /\ \A i \in DOMAIN secs :
                  inSector(h, secs[i][1], secs[i][2])
                      <=> Inside(secs[i][1], secs[i][2])
            /\ secs = << <<N(350), N(10)>> >> =>
                  /\ h \in {N(355), N(5)} => d = 0
                  /\ h = N(180) => d > 0

\* the hue 355 measured against the sector [350,10]
WrapSectorHolds355 ==
    /\ Applied("hue")
    /\ probe.arg.h = N(355)
    /\ probe.arg.sectors = << <<N(350), N(10)>> >>
    /\ probe.out[1] = 0

\* r with its input field left out
SameButInput(r1, r2) == [r1 EXCEPT !.input = <<>>] = [r2 EXCEPT !.input = <<>>]

\* C9: each channel that hexToRgb returns is an integer in 0..255; a
\* 3-digit input gives the same RGB, and the same evaluateTone result but
\* for the input field, as the 6-digit input with each digit doubled; the
\* form with '#' gives the same RGB as the form without it.
HexFormsAgree ==
    Returned =>
        LET s == StripHash(hex)
            rgb == hexToRgb(hex)
            six == IF Len(s) = 3
                   THEN <<s[1], s[1], s[2], s[2], s[3], s[3]>> ELSE s
        IN  /\ {rgb.r, rgb.g, rgb.b} \subseteq 0..255
            /\ ~rgb.threw
            /\ hexToRgb(six) = rgb
            /\ SameButInput(evaluateTone(six, before).result[1], Result)
            /\ hexToRgb(s) = rgb
            /\ hexToRgb(<<"#">> \o s) = rgb

\* the 3-digit input 9Ab evaluated as the colour 99AAbb
ShortFormEvaluated ==
    /\ Returned
    /\ hex = <<"9", "A", "b">>
    /\ Result.lab = rgbToLab(153, 170, 187)

\* C10: #000000 gives Lab 0, 0, 0, chroma 0 and hue 0, and the hue-sector
\* rule is applied to that hue 0 as to any hue.
BlackIsOriginWithHueZero ==
    (Returned /\ hex = Black) =>
        LET hs == before.hueSectors
            d == hueSectorDistance(0, hs.sectors)
            t == IF hs.toleranceDegrees = 0 THEN N(60) ELSE hs.toleranceDegrees
            huePts == MulM(Min(DivM(d, t), N(1)), hs.weight)
            warm == before.warmthPenalty # <<>>
                    /\ 0 > before.warmthPenalty[1].lab_b_gt
            others == rangePenalty(0, before.lightness)
                      + rangePenalty(0, before.chroma)
                      + (IF warm THEN before.warmthPenalty[1].penalty ELSE 0)
            hueNote == "leans outside cool hue sectors"
        IN  /\ Result.lab = [L |-> 0, a |-> 0, b |-> 0]
            /\ Result.chroma = 0
            /\ Result.hue = 0
            /\ (\E i \in DOMAIN Result.notes : Result.notes[i] = hueNote)
                  <=> d > 0
            /\ Result.score = round1(clamp(0, N(100) - (others + huePts), N(100)))

\* black evaluated against sectors that do not contain the hue 0
BlackPenalisedForHue ==
    /\ Returned
    /\ hex = Black
    /\ before.hueSectors.sectors = << <<N(200), N(300)>> >>
    /\ Result.hue = 0
    /\ \E i \in DOMAIN Result.notes :
          Result.notes[i] = "leans outside cool hue sectors"

\* min(dist / divisor, 1) * weight
CappedShare(dist, divisor, weight) == MulM(Min(DivM(dist, divisor), N(1)), weight)

\* C11 as stated: outside [min,max] the penalty is
\* min(dist / max((max - min) / 2, 1), 1) * weight, dist being the distance
\* to the nearer bound, so that the divisor is never smaller than 1.
DivisorNeverBelowOne ==
    Applied("lightness") =>
        LET rule == probe.arg.rule
            d == DistanceOutside(probe.arg.value, rule)
        IN  d > 0 =>
              probe.out[1].penalty =
                  CappedShare(d, Max((rule.max - rule.min) \div 2, N(1)),
                              rule.weight)

\* C11 amended: outside [min,max] the penalty is
\* min(dist / divisor, 1) * weight where the divisor is (max - min) / 2, or
\* 1 when min = max; the divisor is smaller than 1 for an interval
\* narrower than 2 units that is not a single point.
DivisorIsHalfWidthOrOne ==
    Applied("lightness") =>
        LET rule == probe.arg.rule
            d == DistanceOutside(probe.arg.value, rule)
            divisor == IF rule.max = rule.min THEN N(1)
                       ELSE (rule.max - rule.min) \div 2
        IN  d > 0 =>
              /\ probe.out[1].penalty = CappedShare(d, divisor, rule.weight)
              /\ (rule.max - rule.min \in 1..(N(2) - 1)) => divisor < N(1)

\* the value 41.5 measured against {40,41,10}: half a unit beyond an
\* interval one unit wide costs the whole weight
HalfUnitBeyondNarrowInterval ==
    /\ Applied("lightness")
    /\ probe.arg.rule = Rule(40, 41, 10)
    /\ probe.arg.value = N(41) + (N(1) \div 2)
    /\ probe.out[1].penalty = N(10)

\* shortest way round the circle between two angles of [0,360)
CircularDistance(x, y) == Min(Abs(x - y), N(360) - Abs(x - y))

\* 0 when a sector holds h, otherwise the least circular distance from h
\* to an edge of a sector (Infinity when there is no sector)
SectorGap(h, secs) ==
    LET Inside(i) == IF secs[i][1] <= secs[i][2]
                     THEN secs[i][1] <= h /\ h <= secs[i][2]
                     ELSE h >= secs[i][1] \/ h <= secs[i][2]
        edges == {CircularDistance(h, secs[i][j]) : i \in DOMAIN secs, j \in 1..2}
    IN  IF \E i \in DOMAIN secs : Inside(i) THEN 0
        ELSE IF edges = {} THEN Infinity
        ELSE CHOOSE e \in edges : \A e2 \in edges : e <= e2

\* C12: the hue penalty is min(d / t, 1) * weight, d being 0 inside any
\* sector and otherwise the least circular distance (at most 180) to an
\* edge of a sector, t the tolerance or 60 when the tolerance is 0; it lies
\* between 0 and weight.
HuePenaltyIsCappedShare ==
    Applied("huePenalty") =>
        LET rule == probe.arg.rule
            h == probe.arg.h
            d == SectorGap(h, rule.sectors)
            t == IF rule.toleranceDegrees = 0 THEN N(60)
                 ELSE rule.toleranceDegrees
            pen == probe.out[1].penalty
        IN  /\ pen = CappedShare(d, t, rule.weight)
            /\ 0 <= pen /\ pen <= rule.weight
            /\ \A i \in DOMAIN rule.sectors : \A j \in 1..2 :
                  CircularDistance(h, rule.sectors[i][j]) <= N(180)
            /\ (d > 0) <=> probe.out[1].notes # <<>>

\* the hue 181 against the sectors [350,10] and [100,140] with tolerance 0:
\* 41 degrees from the nearest edge, shared over 60 degrees
ToleranceZeroSharedOverSixty ==
    /\ Applied("huePenalty")
    /\ probe.arg.h = N(181)
    /\ probe.arg.rule.toleranceDegrees = 0
    /\ probe.arg.rule.weight = N(20)
    /\ probe.out[1].penalty = MulM(DivM(N(41), N(60)), N(20))

\* chroma and hue of a returned result, before rounding
ChromaOf(r) == hypot(r.lab.a, r.lab.b)
HueOf(r) == labHue(r.lab)

\* the lightness, chroma and hue penalties of a result under profile p
RulePenalties(r, p) ==
    rangePenalty(r.lab.L, p.lightness)
    + rangePenalty(ChromaOf(r), p.chroma)
    + huePenalty(hueSectorDistance(HueOf(r), p.hueSectors.sectors), p.hueSectors)

\* x held between 0 and 100
Within0To100(x) == IF x < 0 THEN 0 ELSE IF x > N(100) THEN N(100) ELSE x

\* C13: the score is clamp(0, 100 - T, 100), returned rounded to one
\* decimal, T being the plain sum of the lightness, chroma, hue and warmth
\* penalties, each limited by its own rule only.
ScoreIsHundredMinusPlainSum ==
    Returned =>
        LET wp == before.warmthPenalty
            T == RulePenalties(Result, before)
                 + (IF warmthApplies(Result.lab, wp) THEN wp[1].penalty ELSE 0)
        IN  Result.score = round1(Within0To100(N(100) - T))

\* yellow against a profile in which each of the four rules charges it and
\* the sum stays below 100
FourPenaltiesBelowHundred ==
    /\ Returned
    /\ hex = <<"f", "f", "0">>
    /\ before.lightness = Rule(50, 50, 20)
    /\ before.hueSectors.sectors = <<>>
    /\ before.warmthPenalty = <<[lab_b_gt |-> 0, penalty |-> N(15)]>>
    /\ Result.score = N(25)

WarmthNote == "yellow warmth present"

\* C14: the warmth rule adds its flat penalty and the note "yellow warmth
\* present" exactly when it is present and lab.b > lab_b_gt (strictly);
\* otherwise it adds no penalty and no note, and its absence makes no call
\* fail.
WarmthFlatAboveThresholdOnly ==
    /\ Called => (outcome.kind = "error" <=> hexToRgb(hex).threw)
    /\ Returned =>
          LET wp == before.warmthPenalty
              fires == wp # <<>> /\ Result.lab.b > wp[1].lab_b_gt
              flat == IF fires THEN wp[1].penalty ELSE 0
          IN  /\ fires <=> \E i \in DOMAIN Result.notes :
                               Result.notes[i] = WarmthNote
              /\ Result.score =
                    round1(Within0To100(N(100) - (RulePenalties(Result, before)
                                                 + flat)))

\* black, whose b is 0, against a warmth rule with the threshold 0
BlackAtWarmthThreshold ==
    /\ Returned
    /\ hex = Black
    /\ before.warmthPenalty = <<[lab_b_gt |-> 0, penalty |-> N(15)]>>
    /\ \A i \in DOMAIN Result.notes : Result.notes[i] # WarmthNote

\* C15: notes is, in this order, the lightness note ("too dark for this
\* tone" iff L < min, "too light/washed" iff L > max), the chroma note
\* ("too gray/soft" iff C < min, "too saturated/bright" iff C > max),
\* "leans outside cool hue sectors" iff d > 0 and "yellow warmth present"
\* iff the warmth rule fires; at most one lightness note, at most one
\* chroma note, and no note twice.
NotesInFixedOrder ==
    Returned =>
        LET L == Result.lab.L
            C == ChromaOf(Result)
            d == SectorGap(HueOf(Result), before.hueSectors.sectors)
            wp == before.warmthPenalty
            fires == wp # <<>> /\ Result.lab.b > wp[1].lab_b_gt
            lightness == IF L < before.lightness.min
                         THEN <<"too dark for this tone">>
                         ELSE IF L > before.lightness.max
                         THEN <<"too light/washed">> ELSE <<>>
            chroma == IF C < before.chroma.min THEN <<"too gray/soft">>
                      ELSE IF C > before.chroma.max
                      THEN <<"too saturated/bright">> ELSE <<>>
            hue == IF d > 0 THEN <<"leans outside cool hue sectors">> ELSE <<>>
            warmth == IF fires THEN <<WarmthNote>> ELSE <<>>
            notes == Result.notes
        IN  /\ notes = lightness \o chroma \o hue \o warmth
            /\ \A i, j \in DOMAIN notes : i # j => notes[i] # notes[j]

\* yellow given all four notes
AllFourNotesGiven ==
    /\ Returned
    /\ Result.notes = <<"too light/washed", "too saturated/bright",
                        "leans outside cool hue sectors", WarmthNote>>

\* level is the label of a bucket of greatest minScore among the buckets of
\* bs whose minScore is <= s, "not a match" when there is none
BestBucketFor(level, bs, s) ==
    LET q == {i \in DOMAIN bs : bs[i].minScore <= s}
    IN  /\ q = {} => level = "not a match"
        /\ q # {} => \E i \in q :
                        /\ bs[i].label = level
                        /\ \A j \in q : bs[j].minScore <= bs[i].minScore

\* C16 as stated: matchLevel is the label of the highest bucket whose
\* minScore is <= the returned, rounded score.
MatchLevelAgreesWithShownScore ==
    Returned => BestBucketFor(Result.matchLevel, before.matchBuckets, Result.score)

\* C16 amended: matchLevel is the label of the highest bucket whose
\* minScore is <= the score before it is rounded; the returned score is
\* that score rounded to one decimal, within 0.05 of it.
MatchLevelFromUnroundedScore ==
    Returned =>
        LET wp == before.warmthPenalty
            T == RulePenalties(Result, before)
                 + (IF wp # <<>> /\ Result.lab.b > wp[1].lab_b_gt
                    THEN wp[1].penalty ELSE 0)
            s == Within0To100(N(100) - T)
        IN  /\ BestBucketFor(Result.matchLevel, before.matchBuckets, s)
            /\ Result.score = round1(s)
            /\ Abs(Result.score - s) <= N(1) \div 20

\* the colour 374, whose score just below 90 is returned as 90.0 with the
\* level of the bucket below
ShownNinetyRatedGood ==
    /\ Returned
    /\ hex = <<"3", "7", "4">>
    /\ Result.score = N(90)
    /\ Result.matchLevel = "Good"

\* C17: whenever toneResult is not null, its input is currentColor.
ToneResultOfCurrentColor ==
    toneResult # <<>> => toneResult[1].input = currentColor

\* C18: at most one colour extraction is in flight: the one of a preview
\* and the one of a capture never run at the same time.
OneExtractionInFlight ==
    ~(previewCall = "extractColorFromImage"
      /\ captureCall.at = "extractColorFromImage")

\* C19: every preview and every capture that was started clears its busy
\* flag once its asynchronous calls have settled: isProcessing and
\* isCapturing each return to FALSE.
BusyFlagsEventuallyCleared ==
    /\ isProcessing ~> ~isProcessing
    /\ isCapturing ~> ~isCapturing

\* a preview that ended in its catch block after an earlier one had shown a
\* result, its flag cleared
FailedPreviewLeftIdle ==
    /\ toneResult # <<>>
    /\ currentColor = Black
    /\ previewCall = "idle"
    /\ ~isProcessing

=============================================================================
